---- MODULE Spec2Model ----
(***************************************************************************)
(* Token-bucket rate limiter (rate-limiter/rate_limiter.py).               *)
(*                                                                         *)
(* One RateLimiter object, its owned Capacity, the re-entrant lock they    *)
(* share, the monotonic clock in milliseconds, and a set of threads that   *)
(* call consume().  consume() is modelled statement by statement, so that  *)
(* the states between two statements of one call are states of the model.  *)
(***************************************************************************)
EXTENDS Integers, Sequences, FiniteSets

\* ---------------------------------------------------------------- bounds
MaxBurst == 2
MaxTime == 2
MaxCalls == 3
NumThreads == 2

\* ------------------------------------------------------ program constants
PRECISION_FACTOR == 60000

\* ------------------------------------------------------------ input sets
Threads == 1..NumThreads
Times == 0..MaxTime
\* fill rates: an invalid one, none, one token per 2 ms, one token per
\* 1.5 ms (it does not divide PRECISION_FACTOR), and a rate above
\* PRECISION_FACTOR * max_burst for every max_burst of the model
FillRates == {-1, 0, 30000, 40000, 60000 * (MaxBurst + 1) + 10000}
Bursts == -1..MaxBurst
\* A key is the sequence of the code points of its characters (ord(c) for
\* each c of the str). Whitespace is every code point c with
\* chr(c).isspace(), which is what str.strip() with no argument removes:
\* \t \n \v \f \r, the separators 28..31, the space, NEL, NBSP and the
\* Unicode spaces and line/paragraph separators.
Whitespace ==
    {9, 10, 11, 12, 13, 28, 29, 30, 31, 32, 133, 160, 5760}
        \cup (8192..8202) \cup {8232, 8233, 8239, 8287, 12288}
\* the keys "", " ", "\t\r\u2003", and " u " (117 is "u")
Keys == { <<>>, <<32>>, <<9, 13, 8195>>, <<32, 117, 32>> }

VARIABLES
    pk,                 \* constructor argument / RateLimiter.pk
    fill_rpm,           \* constructor argument / RateLimiter.fill_rpm, Capacity.fill_rpm
    max_burst,          \* constructor argument / RateLimiter.max_burst, Capacity.max_burst
    status,             \* "pending": constructor not yet run; "ok": limiter built; "error": ValueError raised
    value_precise,      \* Capacity.value_precise
    last_request_time_, \* RateLimiter._last_request_time: <<>> is None, <<t>> is the int t
    lock_owner,         \* RateLimiter._lock (the RLock shared with Capacity): owning thread, 0 when free
    lock_count,         \* recursion level of the RLock
    clock,              \* time.monotonic_ns() // 1000_000 as it would read now
    pc,                 \* per thread: position inside consume()
    current_time,       \* per thread: local current_time of consume()
    elapsed_ms,         \* per thread: local elapsed_ms of consume()
    ret,                \* per thread: the value consume() is about to return
    pre,                \* per thread: value_precise when the call read the clock (history)
    mid,                \* per thread: value_precise when add_delay returned (history)
    last0,              \* per thread: _last_request_time when the call read the clock (history)
    log,                \* the calls that left the with block, in that order (history)
    other               \* a second RateLimiter built with the same arguments

vars == <<pk, fill_rpm, max_burst, status, value_precise, last_request_time_,
          lock_owner, lock_count, clock, pc, current_time, elapsed_ms, ret,
          pre, mid, last0, log, other>>

config == <<pk, fill_rpm, max_burst>>
locals == <<current_time, elapsed_ms, ret, pre, mid, last0>>

\* ------------------------------------------------------------- helpers
Max(a, b) == IF a >= b THEN a ELSE b
Min(a, b) == IF a <= b THEN a ELSE b

\* str.strip(): drop leading and trailing whitespace
RECURSIVE lstrip(_)
lstrip(s) == IF s # <<>> /\ Head(s) \in Whitespace THEN lstrip(Tail(s)) ELSE s
RECURSIVE rstrip(_)
rstrip(s) == IF s # <<>> /\ s[Len(s)] \in Whitespace
             THEN rstrip(SubSeq(s, 1, Len(s) - 1)) ELSE s
strip(s) == rstrip(lstrip(s))

\* ------------------------------------------------------------ Capacity
\* Capacity.value: whole tokens, floor division, no lock taken
value == value_precise \div PRECISION_FACTOR

\* (mutant) the comparison is against 0 instead of one token
is_available_nonnegative == value_precise >= 0

\* (mutant) the positivity check the source comments on as inaccurate
is_available_positive == value_precise > 0

\* Capacity.is_available
is_available == value_precise >= PRECISION_FACTOR

\* (mutant) a deduction of half a token
deduct_one_request_half(v) == Max(v - PRECISION_FACTOR \div 2, 0)

\* Capacity.deduct_one_request: the new value_precise
deduct_one_request(v) == Max(v - PRECISION_FACTOR, 0)

\* int(PRECISION_FACTOR * max_burst / fill_rpm), evaluated for fill_rpm > 0
\* only: the quotient of two non-negative ints, truncated, is the floor
max_fill_time == (PRECISION_FACTOR * max_burst) \div fill_rpm

\* Capacity._clip_to_max_milliseconds
clip_to_max_milliseconds(milliseconds) ==
    IF fill_rpm = 0 THEN milliseconds
    ELSE Min(milliseconds, max_fill_time)

\* (mutant) the overshoot is never clipped
clip_value_to_max_unclipped(v) == v

\* Capacity._clip_value_to_max: the new value_precise
clip_value_to_max(v) ==
    IF v > max_burst * PRECISION_FACTOR THEN max_burst * PRECISION_FACTOR ELSE v

\* Capacity.add_delay, first half: added_tokens_precise
added_tokens_precise(milliseconds) == clip_to_max_milliseconds(milliseconds) * fill_rpm

\* --------------------------------------------------------- RateLimiter
\* (mutant) max_burst = 0 passes the check
InvalidArguments_zero_burst(k, f, m) == strip(k) = <<>> \/ f < 0 \/ m < 0

\* the checks of RateLimiter.__init__ that raise ValueError
InvalidArguments(k, f, m) == strip(k) = <<>> \/ f < 0 \/ m <= 0

\* property last_request_time: self._last_request_time or 0
last_request_time ==
    IF last_request_time_ = <<>> \/ last_request_time_ = <<0>> THEN 0
    ELSE last_request_time_[1]

\* RateLimiter.get_elapsed_time_from_last_request
get_elapsed_time_from_last_request(t) == t - last_request_time

\* (mutant) a lock that excludes nobody
CanAcquire_unguarded(th) == TRUE

\* (mutant) a plain Lock in place of the RLock: the holder blocks on it too
CanAcquire_nonreentrant(th) == lock_owner = 0

\* RLock.acquire by thread th does not block: the lock is free or th holds it
CanAcquire(th) == lock_owner = 0 \/ lock_owner = th

\* calls that went through the with block plus calls on their way to it
\* or inside it, on either limiter
Started ==
    Len(log) + Cardinality({th \in Threads : pc[th] \notin {"idle", "return"}})
    + other.calls
    + Cardinality({th \in Threads : other.pc[th] \notin {"idle", "return"}})

\* ----------------------------------------------------------------- Init
\* before the constructor runs: any arguments, valid or not
Init ==
    /\ pk \in Keys
    /\ fill_rpm \in FillRates
    /\ max_burst \in Bursts
    /\ status = "pending"
    /\ value_precise = 0
    /\ last_request_time_ = <<>>
    /\ lock_owner = 0
    /\ lock_count = 0
    /\ clock = 0
    /\ pc = [th \in Threads |-> "idle"]
    /\ current_time = [th \in Threads |-> 0]
    /\ elapsed_ms = [th \in Threads |-> 0]
    /\ ret = [th \in Threads |-> FALSE]
    /\ pre = [th \in Threads |-> 0]
    /\ mid = [th \in Threads |-> 0]
    /\ last0 = [th \in Threads |-> <<>>]
    /\ log = <<>>
    /\ other = [status |-> "pending", value_precise |-> 0,
                last_request_time_ |-> <<>>, lock_owner |-> 0, lock_count |-> 0,
                pc |-> [th \in Threads |-> "idle"],
                current_time |-> [th \in Threads |-> 0],
                elapsed_ms |-> [th \in Threads |-> 0],
                ret |-> [th \in Threads |-> FALSE],
                calls |-> 0, admitted |-> 0, same |-> TRUE]

\* -------------------------------------------------------------- actions
\* RateLimiter.__init__ (and Capacity.__init__ inside it)
RateLimiter_init ==
    /\ status = "pending"
    /\ IF InvalidArguments(pk, fill_rpm, max_burst)
       THEN /\ status' = "error"
            /\ UNCHANGED <<value_precise, last_request_time_>>
       ELSE /\ status' = "ok"
            /\ value_precise' = max_burst * PRECISION_FACTOR
            /\ last_request_time_' = <<>>
    /\ UNCHANGED <<config, other, lock_owner, lock_count, clock, pc, locals, log>>

\* the monotonic clock shows another reading (later, or earlier when the
\* clock source is not monotonic)
Tick ==
    /\ status = "ok"
    /\ \E t \in Times \ {clock} : clock' = t
    /\ UNCHANGED <<config, other, status, value_precise, last_request_time_,
                   lock_owner, lock_count, pc, locals, log>>

\* a thread that is not inside a call calls consume() and reaches the with
\* statement
consume_call(th) ==
    /\ status = "ok"
    /\ pc[th] = "idle"
    /\ other.pc[th] = "idle"
    /\ Started < MaxCalls
    /\ pc' = [pc EXCEPT ![th] = "lock"]
    /\ UNCHANGED <<config, other, status, value_precise, last_request_time_,
                   lock_owner, lock_count, clock, locals, log>>

\* with self._lock: (line 206)
consume_lock(th) ==
    /\ pc[th] = "lock"
    /\ CanAcquire(th)
    /\ lock_owner' = th
    /\ lock_count' = lock_count + 1
    /\ pc' = [pc EXCEPT ![th] = "time"]
    /\ UNCHANGED <<config, other, status, value_precise, last_request_time_, clock,
                   locals, log>>

\* current_time = time.monotonic_ns() // 1000_000
\* elapsed_ms = self.get_elapsed_time_from_last_request(current_time)
consume_time(th) ==
    /\ pc[th] = "time"
    /\ current_time' = [current_time EXCEPT ![th] = clock]
    /\ elapsed_ms' = [elapsed_ms EXCEPT ![th] = get_elapsed_time_from_last_request(clock)]
    /\ pre' = [pre EXCEPT ![th] = value_precise]
    /\ last0' = [last0 EXCEPT ![th] = last_request_time_]
    /\ pc' = [pc EXCEPT ![th] = "add"]
    /\ UNCHANGED <<config, other, status, value_precise, last_request_time_,
                   lock_owner, lock_count, clock, ret, mid, log>>

\* add_delay, lines 103-106: clip the milliseconds, then under the lock
\* self.value_precise += added_tokens_precise
add_delay_add(th) ==
    /\ pc[th] = "add"
    /\ CanAcquire(th)
    /\ value_precise' = value_precise + added_tokens_precise(elapsed_ms[th])
    /\ pc' = [pc EXCEPT ![th] = "clip"]
    /\ UNCHANGED <<config, other, status, last_request_time_, lock_owner, lock_count,
                   clock, locals, log>>

\* add_delay, line 107: self._clip_value_to_max()
add_delay_clip(th) ==
    /\ pc[th] = "clip"
    /\ CanAcquire(th)
    /\ value_precise' = clip_value_to_max(value_precise)
    /\ mid' = [mid EXCEPT ![th] = value_precise']
    /\ pc' = [pc EXCEPT ![th] = "check"]
    /\ UNCHANGED <<config, other, status, last_request_time_, lock_owner, lock_count,
                   clock, current_time, elapsed_ms, ret, pre, last0, log>>

\* (mutant) the denied call stamps last_request_time too
consume_check_stamping(th) ==
    /\ pc[th] = "check"
    /\ CanAcquire(th)
    /\ IF is_available
       THEN /\ pc' = [pc EXCEPT ![th] = "deduct"]
            /\ UNCHANGED <<ret, last_request_time_>>
       ELSE /\ pc' = [pc EXCEPT ![th] = "exit"]
            /\ ret' = [ret EXCEPT ![th] = FALSE]
            /\ last_request_time_' = <<current_time[th]>>
    /\ UNCHANGED <<config, other, status, value_precise,
                   lock_owner, lock_count, clock, current_time, elapsed_ms,
                   pre, mid, last0, log>>

\* if not self.capacity.is_available(): return False
consume_check(th) ==
    /\ pc[th] = "check"
    /\ CanAcquire(th)
    /\ IF is_available
       THEN /\ pc' = [pc EXCEPT ![th] = "deduct"]
            /\ UNCHANGED ret
       ELSE /\ pc' = [pc EXCEPT ![th] = "exit"]
            /\ ret' = [ret EXCEPT ![th] = FALSE]
    /\ UNCHANGED <<config, other, status, value_precise, last_request_time_,
                   lock_owner, lock_count, clock, current_time, elapsed_ms,
                   pre, mid, last0, log>>

\* self.capacity.deduct_one_request()
consume_deduct(th) ==
    /\ pc[th] = "deduct"
    /\ CanAcquire(th)
    /\ value_precise' = deduct_one_request(value_precise)
    /\ pc' = [pc EXCEPT ![th] = "stamp"]
    /\ UNCHANGED <<config, other, status, last_request_time_, lock_owner, lock_count,
                   clock, locals, log>>

\* self.last_request_time = current_time; return True
consume_stamp(th) ==
    /\ pc[th] = "stamp"
    /\ CanAcquire(th)
    /\ last_request_time_' = <<current_time[th]>>
    /\ ret' = [ret EXCEPT ![th] = TRUE]
    /\ pc' = [pc EXCEPT ![th] = "exit"]
    /\ UNCHANGED <<config, other, status, value_precise, lock_owner, lock_count,
                   clock, current_time, elapsed_ms, pre, mid, last0, log>>

\* leaving the with block (the return statements of lines 212 and 216 sit
\* inside it): the lock is released, the call has not returned yet. The
\* call enters the history here, so log is in the order in which the calls
\* went through the lock.
consume_release(th) ==
    /\ pc[th] = "exit"
    /\ lock_count' = lock_count - 1
    /\ lock_owner' = IF lock_count' = 0 THEN 0 ELSE lock_owner
    /\ log' = Append(log, [t |-> current_time[th], el |-> elapsed_ms[th],
                           pre |-> pre[th], mid |-> mid[th], ok |-> ret[th],
                           post |-> value_precise, last0 |-> last0[th],
                           last |-> last_request_time_])
    /\ pc' = [pc EXCEPT ![th] = "return"]
    /\ pre' = [pre EXCEPT ![th] = 0]
    /\ mid' = [mid EXCEPT ![th] = 0]
    /\ last0' = [last0 EXCEPT ![th] = <<>>]
    /\ UNCHANGED <<config, other, status, value_precise, last_request_time_, clock,
                   current_time, elapsed_ms, ret>>

\* consume() returns ret to its caller, after the lock was released
consume_return(th) ==
    /\ pc[th] = "return"
    /\ pc' = [pc EXCEPT ![th] = "idle"]
    /\ current_time' = [current_time EXCEPT ![th] = 0]
    /\ elapsed_ms' = [elapsed_ms EXCEPT ![th] = 0]
    /\ ret' = [ret EXCEPT ![th] = FALSE]
    /\ UNCHANGED <<config, other, status, value_precise, last_request_time_,
                   lock_owner, lock_count, clock, pre, mid, last0, log>>

consume(th) ==
    \/ consume_call(th)
    \/ consume_lock(th)
    \/ consume_time(th)
    \/ add_delay_add(th)
    \/ add_delay_clip(th)
    \/ consume_check(th)
    \/ consume_deduct(th)
    \/ consume_stamp(th)
    \/ consume_release(th)
    \/ consume_return(th)

Next ==
    \/ RateLimiter_init
    \/ Tick
    \/ \E th \in Threads : consume(th)

Spec == Init /\ [][Next]_vars

\* ------------------------------------------- any number of calls
\* The specifications below put no bound on the number of calls: the
\* history log is not kept, and the clock only moves forwards, up to
\* MaxTime, so that value_precise stays within finitely many values.

\* the monotonic clock shows a later reading
TickForward ==
    /\ Tick
    /\ clock' > clock

\* a thread calls consume() and reaches the with statement
consume_call_live(th) ==
    /\ status = "ok"
    /\ pc[th] = "idle"
    /\ other.pc[th] = "idle"
    /\ pc' = [pc EXCEPT ![th] = "lock"]
    /\ UNCHANGED <<config, other, status, value_precise, last_request_time_,
                   lock_owner, lock_count, clock, locals, log>>

\* leaving the with block: the lock is released, no history is kept
consume_release_live(th) ==
    /\ pc[th] = "exit"
    /\ lock_count' = lock_count - 1
    /\ lock_owner' = IF lock_count' = 0 THEN 0 ELSE lock_owner
    /\ pc' = [pc EXCEPT ![th] = "return"]
    /\ pre' = [pre EXCEPT ![th] = 0]
    /\ mid' = [mid EXCEPT ![th] = 0]
    /\ last0' = [last0 EXCEPT ![th] = <<>>]
    /\ UNCHANGED <<config, other, status, value_precise, last_request_time_, clock,
                   current_time, elapsed_ms, ret, log>>

\* the statements of consume() after the with statement was entered, and
\* its return
consume_progress(th) ==
    \/ consume_time(th)
    \/ add_delay_add(th)
    \/ add_delay_clip(th)
    \/ consume_check(th)
    \/ consume_deduct(th)
    \/ consume_stamp(th)
    \/ consume_release_live(th)
    \/ consume_return(th)

consume_live(th) ==
    \/ consume_call_live(th)
    \/ consume_lock(th)
    \/ consume_progress(th)

NextLive ==
    \/ RateLimiter_init
    \/ TickForward
    \/ \E th \in Threads : consume_live(th)

\* fair scheduling: a thread that can run its next statement does run it,
\* and a thread that finds the lock free again and again does get it
FairSpec ==
    /\ Init
    /\ [][NextLive]_vars
    /\ \A th \in Threads :
          /\ SF_vars(consume_lock(th))
          /\ WF_vars(consume_progress(th))

\* fair scheduling as in FairSpec, and moreover consume() keeps being
\* called by every thread and the clock keeps moving on while it can
LiveSpec ==
    /\ Init
    /\ [][NextLive]_vars
    /\ WF_vars(TickForward)
    /\ \A th \in Threads :
          /\ WF_vars(consume_call_live(th))
          /\ SF_vars(consume_lock(th))
          /\ WF_vars(consume_progress(th))

\* ------------------------------------------------- a monotonic clock
\* the bounded calls of Spec, with a clock that never goes back
NextMono ==
    \/ RateLimiter_init
    \/ TickForward
    \/ \E th \in Threads : consume(th)

SpecMono == Init /\ [][NextMono]_vars

\* ---------------------------------------------------- a second limiter
\* Another RateLimiter object built with the same arguments. Its fields
\* are the fields of the record other, named as the variables of the first
\* limiter: value_precise, last_request_time_, lock_owner and lock_count
\* for its own RLock (line 153 makes one per object), and per thread pc,
\* current_time, elapsed_ms and ret of a call of consume() on it. As
\* history it keeps the number of calls that went through its lock (calls),
\* the number of them that were admitted, and whether every call on it so
\* far found no time passed since its last stamp (same). A thread is
\* inside one call at a time, on one limiter or the other.

\* the variables of the first limiter and of the calls on it
first == <<status, value_precise, last_request_time_, lock_owner, lock_count,
           pc, locals, log>>

\* RateLimiter.last_request_time (getter) of the second limiter
other_last_request_time ==
    IF other.last_request_time_ = <<>> THEN 0 ELSE other.last_request_time_[1]

\* (mutant) the second limiter was given the lock of the first
other_CanAcquire_shared(th) == CanAcquire(th)

\* RLock.acquire on the second limiter's lock by thread th does not block
other_CanAcquire(th) == other.lock_owner = 0 \/ other.lock_owner = th

\* RateLimiter.__init__ of the second limiter
other_init ==
    /\ other.status = "pending"
    /\ IF InvalidArguments(pk, fill_rpm, max_burst)
       THEN other' = [other EXCEPT !.status = "error"]
       ELSE other' = [other EXCEPT !.status = "ok",
                                   !.value_precise = max_burst * PRECISION_FACTOR,
                                   !.last_request_time_ = <<>>]
    /\ UNCHANGED <<config, clock, first>>

\* a thread that is not inside a call calls consume() on the second limiter
other_consume_call(th) ==
    /\ other.status = "ok"
    /\ pc[th] = "idle"
    /\ other.pc[th] = "idle"
    /\ Started < MaxCalls
    /\ other' = [other EXCEPT !.pc[th] = "lock"]
    /\ UNCHANGED <<config, clock, first>>

\* with self._lock: (line 206)
other_consume_lock(th) ==
    /\ other.pc[th] = "lock"
    /\ other_CanAcquire(th)
    /\ other' = [other EXCEPT !.lock_owner = th,
                              !.lock_count = @ + 1,
                              !.pc[th] = "time"]
    /\ UNCHANGED <<config, clock, first>>

\* current_time = time.monotonic_ns() // 1000_000
\* elapsed_ms = self.get_elapsed_time_from_last_request(current_time)
other_consume_time(th) ==
    /\ other.pc[th] = "time"
    /\ other' = [other EXCEPT !.current_time[th] = clock,
                              !.elapsed_ms[th] = clock - other_last_request_time,
                              !.same = @ /\ clock - other_last_request_time = 0,
                              !.pc[th] = "add"]
    /\ UNCHANGED <<config, clock, first>>

\* add_delay, lines 103-106
other_add_delay_add(th) ==
    /\ other.pc[th] = "add"
    /\ other_CanAcquire(th)
    /\ other' = [other EXCEPT
                    !.value_precise = @ + added_tokens_precise(other.elapsed_ms[th]),
                    !.pc[th] = "clip"]
    /\ UNCHANGED <<config, clock, first>>

\* add_delay, line 107: self._clip_value_to_max()
other_add_delay_clip(th) ==
    /\ other.pc[th] = "clip"
    /\ other_CanAcquire(th)
    /\ other' = [other EXCEPT !.value_precise = clip_value_to_max(@),
                              !.pc[th] = "check"]
    /\ UNCHANGED <<config, clock, first>>

\* if not self.capacity.is_available(): return False
other_consume_check(th) ==
    /\ other.pc[th] = "check"
    /\ other_CanAcquire(th)
    /\ IF other.value_precise >= PRECISION_FACTOR
       THEN other' = [other EXCEPT !.pc[th] = "deduct"]
       ELSE other' = [other EXCEPT !.pc[th] = "exit", !.ret[th] = FALSE]
    /\ UNCHANGED <<config, clock, first>>

\* self.capacity.deduct_one_request()
other_consume_deduct(th) ==
    /\ other.pc[th] = "deduct"
    /\ other_CanAcquire(th)
    /\ other' = [other EXCEPT !.value_precise = deduct_one_request(@),
                              !.pc[th] = "stamp"]
    /\ UNCHANGED <<config, clock, first>>

\* self.last_request_time = current_time; return True
other_consume_stamp(th) ==
    /\ other.pc[th] = "stamp"
    /\ other_CanAcquire(th)
    /\ other' = [other EXCEPT !.last_request_time_ = <<other.current_time[th]>>,
                              !.ret[th] = TRUE,
                              !.pc[th] = "exit"]
    /\ UNCHANGED <<config, clock, first>>

\* leaving the with block: the second limiter's lock is released
other_consume_release(th) ==
    /\ other.pc[th] = "exit"
    /\ other' = [other EXCEPT
                    !.lock_count = @ - 1,
                    !.lock_owner = IF other.lock_count = 1 THEN 0 ELSE @,
                    !.calls = @ + 1,
                    !.admitted = IF other.ret[th] THEN @ + 1 ELSE @,
                    !.pc[th] = "return"]
    /\ UNCHANGED <<config, clock, first>>

\* consume() on the second limiter returns ret to its caller
other_consume_return(th) ==
    /\ other.pc[th] = "return"
    /\ other' = [other EXCEPT !.pc[th] = "idle",
                              !.current_time[th] = 0,
                              !.elapsed_ms[th] = 0,
                              !.ret[th] = FALSE]
    /\ UNCHANGED <<config, clock, first>>

other_consume(th) ==
    \/ other_consume_call(th)
    \/ other_consume_lock(th)
    \/ other_consume_time(th)
    \/ other_add_delay_add(th)
    \/ other_add_delay_clip(th)
    \/ other_consume_check(th)
    \/ other_consume_deduct(th)
    \/ other_consume_stamp(th)
    \/ other_consume_release(th)
    \/ other_consume_return(th)

NextTwo ==
    \/ Next
    \/ other_init
    \/ \E th \in Threads : other_consume(th)

SpecTwo == Init /\ [][NextTwo]_vars

\* ------------------------------------------------- reading the history
\* the number of calls among log[i..j] that returned True
AdmittedIn(i, j) == Cardinality({k \in i..j : log[k].ok})

\* the number of calls among log[i..j] that returned False
DeniedIn(i, j) == Cardinality({k \in i..j : ~log[k].ok})

\* the calls log[i..j] all read the same clock value
SameReading(i, j) == \A k \in i..j : log[k].t = log[i].t

\* v is a whole number of tokens
WholeTokens(v) == v >= 0 /\ v % PRECISION_FACTOR = 0

\* the clock readings of the completed calls never went back
NonDecreasing == \A k \in 1..Len(log) - 1 : log[k].t <= log[k + 1].t

\* ----------------------------------------------------------------- C1
\* C1: K calls of consume() racing at one clock reading against a bucket
\* that holds exactly T whole tokens when the race starts return True
\* exactly min(K, T) times and False the other K - min(K, T) times, however
\* the threads interleave.
C1_ConcurrencySafety ==
    \A i \in 1..Len(log) : \A j \in i..Len(log) :
        ( /\ SameReading(i, j)
          /\ WholeTokens(log[i].pre) )
        => /\ AdmittedIn(i, j) = Min(j - i + 1, log[i].pre \div PRECISION_FACTOR)
           /\ DeniedIn(i, j)
                = (j - i + 1) - Min(j - i + 1, log[i].pre \div PRECISION_FACTOR)

\* the count is exact when the first call of the race sees no time passed
\* since the last stamp (a fresh limiter read at 0, or a race at the
\* reading of the last admitted call), so that no call of the race refills
C1_ExactWithoutRefill ==
    \A i \in 1..Len(log) : \A j \in i..Len(log) :
        ( /\ SameReading(i, j)
          /\ WholeTokens(log[i].pre)
          /\ log[i].el = 0 )
        => AdmittedIn(i, j) = Min(j - i + 1, log[i].pre \div PRECISION_FACTOR)

\* ----------------------------------------------------------------- C2
\* C2: on a fresh limiter with max_burst = N, as long as every call reads
\* the same clock value, the first N calls of consume() return True and
\* every call after them (the (N+1)-th first of all) returns False.
C2_BurstCeiling ==
    (Len(log) > 0 /\ SameReading(1, Len(log)))
    => \A k \in 1..Len(log) : log[k].ok <=> (k <= max_burst)

\* N + 1 calls at one non-zero reading, with a positive fill rate
C2_Witness ==
    /\ status = "ok"
    /\ Len(log) = max_burst + 1
    /\ SameReading(1, Len(log))
    /\ log[1].t > 0
    /\ fill_rpm > 0
    /\ ~log[Len(log)].ok

\* ----------------------------------------------------------------- C3
\* C3: while the clock readings never go back, the calls that return True
\* between any two completed calls, the two included, number at most
\* max_burst + floor((t2 - t1) * fill_rpm / PRECISION_FACTOR), t1 and t2
\* being the clock readings of the two calls; denied calls do not bring a
\* token forward.
C3_RateBound ==
    NonDecreasing =>
        \A i \in 1..Len(log) : \A j \in i..Len(log) :
            AdmittedIn(i, j) <= max_burst
                + ((log[j].t - log[i].t) * fill_rpm) \div PRECISION_FACTOR

\* ----------------------------------------------------------------- C4
\* C4: a call whose clock reading is earlier than last_request_time
\* (elapsed_ms < 0) leaves value_precise unchanged in its refill step, and
\* returns and leaves behind what the same call would with elapsed_ms = 0.
C4_ClockRegressionSafe ==
    \A k \in 1..Len(log) :
        log[k].el < 0 =>
            /\ log[k].mid = log[k].pre
            /\ log[k].ok = (log[k].pre >= PRECISION_FACTOR)
            /\ log[k].post = IF log[k].pre >= PRECISION_FACTOR
                              THEN log[k].pre - PRECISION_FACTOR
                              ELSE log[k].pre

\* ----------------------------------------------------------------- C5
\* C5: after every completed call of consume(), whatever the clock read,
\* 0 <= value_precise <= max_burst * PRECISION_FACTOR.
C5_ScaledValueInRange ==
    \A k \in 1..Len(log) :
        0 <= log[k].post /\ log[k].post <= max_burst * PRECISION_FACTOR

\* ----------------------------------------------------------------- C6
\* C6: Capacity.value, read without the lock at any instant of the
\* limiter's life, another thread being anywhere inside consume(), is in
\* 0..max_burst.
C6_ReaderInRange ==
    status = "ok" => (0 <= value /\ value <= max_burst)

\* ----------------------------------------------------------------- C7
\* C7: with fill_rpm > 0, when an admitted call at t0 left value_precise
\* at 0 and the next call reads t0 + D, D >= 0, that call has
\* value_precise = min(max_burst * PRECISION_FACTOR, D * fill_rpm) after
\* its refill step, before it deducts.
C7_RefillProportional ==
    \A k \in 1..Len(log) - 1 :
        ( /\ fill_rpm > 0
          /\ log[k].ok
          /\ log[k].post = 0
          /\ log[k + 1].t >= log[k].t )
        => log[k + 1].mid = Min(max_burst * PRECISION_FACTOR,
                                (log[k + 1].t - log[k].t) * fill_rpm)

\* ----------------------------------------------------------------- C8
\* C8: with fill_rpm > 0, when an admitted call at t0 left value_precise
\* at 0 and the next call reads a time at least
\* floor(PRECISION_FACTOR * max_burst / fill_rpm) after t0, that call
\* returns True.
C8_AvailableAfterGap ==
    \A k \in 1..Len(log) - 1 :
        ( /\ fill_rpm > 0
          /\ log[k].ok
          /\ log[k].post = 0
          /\ log[k + 1].t - log[k].t
                >= (PRECISION_FACTOR * max_burst) \div fill_rpm )
        => log[k + 1].ok

\* ----------------------------------------------------------------- C9
\* C9: with fill_rpm = 0, a call made after max_burst calls have returned
\* True returns False, whatever the clock reads and however many calls
\* follow.
C9_ZeroRateTerminal ==
    fill_rpm = 0 =>
        \A k \in 1..Len(log) :
            AdmittedIn(1, k - 1) >= max_burst => ~log[k].ok

\* the bucket of a zero-rate limiter was drained, the clock moved on, and
\* the next call was denied
C9_Witness ==
    /\ fill_rpm = 0
    /\ \E k \in 1..Len(log) :
           /\ AdmittedIn(1, k - 1) = max_burst
           /\ log[k].el > 0
           /\ ~log[k].ok

\* ---------------------------------------------------------------- C10
\* the key is empty or holds whitespace only
BlankKey(k) == \A i \in 1..Len(k) : k[i] \in Whitespace

\* C10: the constructor fails, and builds nothing, exactly when the key is
\* empty or whitespace-only, or fill_rpm < 0, or max_burst <= 0; otherwise
\* it succeeds and, until consume() is first called, value_precise =
\* max_burst * PRECISION_FACTOR and last_request_time reads 0.
C10_EagerValidation ==
    /\ status = "error" =>
          /\ BlankKey(pk) \/ fill_rpm < 0 \/ max_burst <= 0
          /\ value_precise = 0 /\ Started = 0
    /\ status = "ok" =>
          /\ ~BlankKey(pk) /\ fill_rpm >= 0 /\ max_burst > 0
          /\ Started = 0 =>
                /\ value_precise = max_burst * PRECISION_FACTOR
                /\ last_request_time = 0

\* a limiter built from the smallest valid arguments and a key padded with
\* whitespace, not yet used
C10_Witness ==
    /\ status = "ok"
    /\ Started = 0
    /\ pk # strip(pk)
    /\ fill_rpm = 0
    /\ max_burst = 1

\* ---------------------------------------------------------------- C11
\* no thread is inside consume()
AllIdle == \A th \in Threads : pc[th] = "idle"

\* C11: under fair scheduling every call of consume() that a thread has
\* started returns, and what it returns is True or False; the lock is
\* released on the path that denies and on the path that admits, so that
\* whenever no call is in progress the lock is free, and the re-entrant
\* acquisitions inside the call never block its holder.
C11_AlwaysReturns ==
    /\ \A th \in Threads : (pc[th] = "lock") ~> (pc[th] = "idle")
    /\ [](AllIdle => (lock_owner = 0 /\ lock_count = 0))
    /\ [](\A th \in Threads : pc[th] = "return" => lock_owner # th)
    /\ [](\A th \in Threads : ret[th] \in BOOLEAN)

\* after an admitted call has released the lock, a thread is about to
\* return False while another thread waits for the lock
C11_Witness ==
    /\ last_request_time_ # <<>>
    /\ \E th \in Threads : \E o \in Threads \ {th} :
           /\ pc[th] = "exit" /\ ~ret[th] /\ lock_owner = th
           /\ pc[o] = "lock"

\* ---------------------------------------------------------------- C12
\* thread th is inside the with block of consume(): between the lock
\* acquisition and the release of the lock
InCritical(th) ==
    pc[th] \in {"time", "add", "clip", "check", "deduct", "stamp", "exit"}

\* thread th is between the lock acquisition and the return of consume()
BeforeReturn(th) == InCritical(th) \/ pc[th] = "return"

\* C12 (as stated): in no state are two threads both between the lock
\* acquisition and the return of consume().
C12_NoTwoBeforeReturn ==
    Cardinality({th \in Threads : BeforeReturn(th)}) <= 1

\* C12 (amended): at most one thread is between the lock acquisition and
\* the release of the lock at the end of the with block, and it is the
\* thread that holds the lock; so the critical sections run one after the
\* other: each call finds value_precise as the call that went through the
\* lock before it left it. (A call that has released the lock and not yet
\* returned can overlap with the next call.)
C12_Atomicity ==
    /\ Cardinality({th \in Threads : InCritical(th)}) <= 1
    /\ \A th \in Threads : InCritical(th) => lock_owner = th
    /\ \A k \in 1..Len(log) - 1 : log[k + 1].pre = log[k].post

\* a thread is about to deduct while another thread waits at the with
\* statement
C12_Witness ==
    \E th \in Threads : \E o \in Threads \ {th} :
        pc[th] = "deduct" /\ pc[o] = "lock"

\* ---------------------------------------------------------------- C13
\* C13: a call of consume() that returns False leaves _last_request_time
\* as it found it and deducts nothing: value_precise at its return is the
\* value right after its refill step.
C13_DenialFrame ==
    \A k \in 1..Len(log) :
        ~log[k].ok =>
            /\ log[k].last = log[k].last0
            /\ log[k].post = log[k].mid

\* a call was denied at a reading later than the last stamp, after a
\* refill that was not enough for a token
C13_Witness ==
    \E k \in 1..Len(log) :
        /\ ~log[k].ok
        /\ log[k].el > 0
        /\ log[k].mid > log[k].pre

\* ---------------------------------------------------------------- C14
\* C14: consume() returns True exactly when value_precise is at least
\* PRECISION_FACTOR right after its refill step; then value_precise goes
\* down by exactly PRECISION_FACTOR (a thread about to deduct always finds a
\* whole token, so the floor at zero never acts) and _last_request_time
\* becomes the clock reading that call took.
C14_AdmissionEffect ==
    /\ \A th \in Threads : pc[th] = "deduct" => value_precise >= PRECISION_FACTOR
    /\ \A k \in 1..Len(log) :
          /\ log[k].ok <=> log[k].mid >= PRECISION_FACTOR
          /\ log[k].ok => /\ log[k].post = log[k].mid - PRECISION_FACTOR
                          /\ log[k].last = <<log[k].t>>

\* one call was admitted and moved the stamp to its own reading, another
\* was denied with a part of a token in the bucket
C14_Witness ==
    /\ \E k \in 1..Len(log) :
          /\ log[k].ok
          /\ log[k].last0 # <<>>
          /\ log[k].last0 # <<log[k].t>>
    /\ \E k \in 1..Len(log) :
          /\ ~log[k].ok
          /\ log[k].mid > 0

\* ---------------------------------------------------------------- C15
\* C15 (as stated): in every state of a constructed limiter value_precise > 0
\* holds exactly when value_precise >= PRECISION_FACTOR.
C15_ChecksCoincide ==
    status = "ok" => ((value_precise > 0) <=> (value_precise >= PRECISION_FACTOR))

\* no call so far has seen time pass since the last stamp
NoRefillYet ==
    /\ \A k \in 1..Len(log) : log[k].el = 0
    /\ \A th \in Threads : elapsed_ms[th] = 0

\* C15 (amended): the positivity check and the one-token check coincide as
\* long as nothing but whole tokens moved: when fill_rpm is 0, or while no
\* call has seen time pass since the last stamp. (A refill of part of a token
\* leaves value_precise strictly between 0 and PRECISION_FACTOR.)
C15_CoincideWithoutRefill ==
    (status = "ok" /\ (fill_rpm = 0 \/ NoRefillYet))
        => ((value_precise > 0) <=> (value_precise >= PRECISION_FACTOR))

\* a refilling limiter was drained by calls at one reading and denied one
C15_Witness ==
    /\ status = "ok"
    /\ fill_rpm > 0
    /\ NoRefillYet
    /\ value_precise = 0
    /\ \E k \in 1..Len(log) : ~log[k].ok

\* ---------------------------------------------------------------- C16
\* C16: a step of consume() on one limiter leaves value_precise and
\* _last_request_time of the other limiter (and its lock) as they were; a
\* thread waiting at the with statement of one limiter can enter as soon as
\* that limiter's own lock is free, whoever holds the lock of the other
\* limiter; and each of two limiters with the same configuration admits
\* exactly its own max_burst calls while its calls see no time pass,
\* however the calls on the two are interleaved.
C16_Independence ==
    /\ [][(\E th \in Threads : consume(th)) => other' = other]_vars
    /\ [][(\E th \in Threads : other_consume(th))
            => UNCHANGED <<value_precise, last_request_time_, lock_owner, lock_count>>]_vars
    /\ [](\A th \in Threads :
            /\ (other.pc[th] = "lock" /\ other.lock_owner = 0)
                  => ENABLED other_consume_lock(th)
            /\ (pc[th] = "lock" /\ lock_owner = 0)
                  => ENABLED consume_lock(th))
    /\ []((status = "ok" /\ \A k \in 1..Len(log) : log[k].el = 0)
            => AdmittedIn(1, Len(log)) = Min(Len(log), max_burst))
    /\ []((other.status = "ok" /\ other.same)
            => other.admitted = Min(other.calls, max_burst))

\* two threads are inside consume() at once, one on each limiter, each
\* holding that limiter's lock and about to be admitted with the last token
\* of that limiter's burst, while no call has seen time pass
C16_Witness ==
    /\ other.status = "ok"
    /\ other.same
    /\ other.admitted = other.calls
    /\ \A k \in 1..Len(log) : log[k].ok /\ log[k].el = 0
    /\ \E th \in Threads : \E o \in Threads \ {th} :
          /\ pc[th] = "exit" /\ ret[th] /\ elapsed_ms[th] = 0
          /\ lock_owner = th
          /\ value_precise = 0
          /\ other.pc[o] = "exit" /\ other.ret[o]
          /\ other.lock_owner = o
          /\ other.value_precise = 0

\* ---------------------------------------------------------------- C17
\* the clock reading of the most recent admitted call, 0 if there is none:
\* the call that has stamped and is about to return, else the last
\* completed call that returned True
LastAdmittedReading ==
    IF \E th \in Threads : pc[th] = "exit" /\ ret[th]
    THEN current_time[CHOOSE th \in Threads : pc[th] = "exit" /\ ret[th]]
    ELSE IF \A k \in 1..Len(log) : ~log[k].ok
         THEN 0
         ELSE log[CHOOSE k \in 1..Len(log) :
                     /\ log[k].ok
                     /\ \A j \in k + 1..Len(log) : ~log[j].ok].t

\* C17: with a clock that never goes back, the elapsed time computed in
\* consume() is never negative, _last_request_time never decreases, and it
\* always equals the clock reading of the most recent admitted call (0 if
\* none), however concurrent callers interleave.
C17_MonotonicStamp ==
    /\ [](\A th \in Threads : InCritical(th) => elapsed_ms[th] >= 0)
    /\ [](\A k \in 1..Len(log) : log[k].el >= 0)
    /\ [][last_request_time' >= last_request_time]_vars
    /\ [](status = "ok" => last_request_time = LastAdmittedReading)

\* a call that read the clock after an earlier admitted call, at a later
\* reading, has stamped its own reading
C17_Witness ==
    /\ Len(log) > 0
    /\ log[Len(log)].ok
    /\ \E th \in Threads :
          /\ pc[th] = "exit"
          /\ ret[th]
          /\ elapsed_ms[th] > 0
          /\ current_time[th] > log[Len(log)].t
          /\ last_request_time = current_time[th]

\* ---------------------------------------------------------------- C18
\* less than one token is in the bucket
Drained == value_precise < PRECISION_FACTOR

\* some call of consume() is returning True
Admitting == \E th \in Threads : pc[th] = "exit" /\ ret[th]

\* C18: for every valid configuration with fill_rpm > 0, once the bucket
\* is drained and the clock is past the last stamp, with consume() called
\* again and again, some later call of consume() returns True.
C18_EventualReadmission ==
    (status = "ok" /\ fill_rpm > 0 /\ Drained /\ clock > last_request_time)
        ~> Admitting

\* the same, for the configurations whose clamp on the elapsed
\* milliseconds is at least 1
C18_ReadmissionWithClamp ==
    (status = "ok" /\ fill_rpm > 0 /\ max_fill_time > 0
        /\ Drained /\ clock > last_request_time)
        ~> Admitting

====
